---- MODULE Spec2Model ----
(***************************************************************************)
(* Portfolio single-page application: the scroll-spy hook (useScrollSpy),  *)
(* the command palette (CommandPalette: search over sections and projects, *)
(* open/close life cycle, selection), and the theme preference of App.     *)
(*                                                                         *)
(* Strings are sequences of one-character strings, so that toLowerCase,    *)
(* trim and includes are computed character by character.                  *)
(*                                                                         *)
(* One step of the model is one browser event (or one timer callback)      *)
(* together with the React render and the effects it causes: the state     *)
(* updates of a handler are committed, and the effects whose dependencies  *)
(* changed are run, before the next event is handled.                      *)
(***************************************************************************)
EXTENDS Integers, Sequences, FiniteSets, TLC

VARIABLES
    phase,        \* "rendered": first render done, effects not yet run; "effects":
                  \* first effects run, their state updates not yet rendered;
                  \* "mounted"; "crashed": an effect threw and React removed the
                  \* tree; "unmounted": App was removed
    sectionIds,   \* useScrollSpy: the configured list of section ids
    offset,       \* useScrollSpy: the activation threshold in pixels
    dom,          \* the document: element id |-> getBoundingClientRect().top
    active,       \* useScrollSpy: the active section id
    everSet,      \* history: setActive has been called with an id
    threw,        \* a handler has thrown
    lastEvent,    \* the event handled by the last step
    issued,       \* the scrollIntoView calls made by the last step, in order
    sections,     \* CommandPalette props: sections (id, label)
    projects,     \* CommandPalette props: projects (id, name)
    paletteOpen,  \* App: the overlay is open
    q,            \* CommandPalette: the query text
    results,      \* CommandPalette: the memoised result list
    dark,         \* App: the dark state
    rootDark,     \* document.documentElement has the class "dark"
    stored,       \* localStorage "theme": the string in the slot, "none" when
                  \* getItem returns null, "unavailable" when localStorage throws
    sysDark,      \* matchMedia("(prefers-color-scheme: dark)"): "dark", "light", "unavailable"
    unloaded,     \* history: the theme shown, the last event handled and the slot
                  \* value read at startup when the page was last unloaded
    startup,      \* the startup taken effect by effect: the slot value the read
                  \* effect got and the value it passed to setDark
    timers,       \* pending setTimeout callbacks (project ids), oldest first
    scrollHandlers, \* the scroll listeners of useScrollSpy registered on window
    escHandlers   \* the keydown listeners of CommandPalette registered on window

vars == <<phase, sectionIds, offset, dom, active, everSet, threw, lastEvent, issued,
          sections, projects, paletteOpen, q, results,
          dark, rootDark, stored, sysDark, unloaded, startup, timers,
          scrollHandlers, escHandlers>>

spyVars == <<sectionIds, offset, dom, active, everSet, threw>>
paletteVars == <<sections, projects, paletteOpen, q, results>>
themeVars == <<dark, rootDark, stored, sysDark, unloaded, startup>>
listenerVars == <<scrollHandlers, escHandlers>>

(***************************************************************************)
(* Bounds of the model.                                                    *)
(***************************************************************************)
MaxQueryLen == 2
MaxSections == 3
MaxTimers == 1

(***************************************************************************)
(* Strings.                                                                *)
(***************************************************************************)
Range(s) == {s[i] : i \in 1..Len(s)}

UpperCase == <<"A","B","C","D","E","F","G","H","I","J","K","L","M","N","O","P","Q","R","S","T","U","V","W","X","Y","Z">>
LowerCase == <<"a","b","c","d","e","f","g","h","i","j","k","l","m","n","o","p","q","r","s","t","u","v","w","x","y","z">>
WhiteSpace == {" "}

Chars ==
    Range(UpperCase) \cup Range(LowerCase)
    \cup {" ", "+", "-", "&", "(", ")", "0", "1", "2", "3", "4", "5", "6", "7", "8", "9"}

LowerOf == [c \in Chars |->
    IF \E i \in 1..Len(UpperCase) : UpperCase[i] = c
    THEN LowerCase[CHOOSE i \in 1..Len(UpperCase) : UpperCase[i] = c]
    ELSE c]

ToLowerChar(c) == IF c \in Chars THEN LowerOf[c] ELSE c

\* String.prototype.toLowerCase
toLowerCase(s) == [i \in 1..Len(s) |-> ToLowerChar(s[i])]

RECURSIVE TrimStart(_)
TrimStart(s) ==
    IF s # <<>> /\ Head(s) \in WhiteSpace THEN TrimStart(Tail(s)) ELSE s

RECURSIVE TrimEnd(_)
TrimEnd(s) ==
    IF s # <<>> /\ s[Len(s)] \in WhiteSpace THEN TrimEnd(SubSeq(s, 1, Len(s) - 1)) ELSE s

\* String.prototype.trim
trim(s) == TrimEnd(TrimStart(s))

\* s has t at (1-based) position k
RECURSIVE MatchAt(_, _, _, _)
MatchAt(s, t, k, i) ==
    IF i > Len(t) THEN TRUE
    ELSE IF k + i - 1 > Len(s) THEN FALSE
    ELSE IF s[k + i - 1] # t[i] THEN FALSE
    ELSE MatchAt(s, t, k, i + 1)

RECURSIVE IncludesFrom(_, _, _)
IncludesFrom(s, t, k) ==
    IF k + Len(t) - 1 > Len(s) THEN FALSE
    ELSE IF MatchAt(s, t, k, 1) THEN TRUE
    ELSE IncludesFrom(s, t, k + 1)

\* String.prototype.includes
includes(s, t) == IncludesFrom(s, t, 1)

\* Array.prototype.slice(from, to), 0-based, end exclusive
slice(s, from, to) ==
    LET hi == IF to < Len(s) THEN to ELSE Len(s)
    IN  IF from >= hi THEN <<>> ELSE SubSeq(s, from + 1, hi)

(***************************************************************************)
(* Content: the sections of App and the projects of CONTENT.               *)
(***************************************************************************)
Home == <<"H","o","m","e">>
About == <<"A","b","o","u","t">>
Skills == <<"S","k","i","l","l","s">>
Projects == <<"P","r","o","j","e","c","t","s">>
Experience == <<"E","x","p","e","r","i","e","n","c","e">>
Resume == <<"R","e","s","u","m","e">>
Timeline == <<"T","i","m","e","l","i","n","e">>
Contact == <<"C","o","n","t","a","c","t">>

AppSections ==
    << [id |-> "top", label |-> Home],
       [id |-> "about", label |-> About],
       [id |-> "skills", label |-> Skills],
       [id |-> "projects", label |-> Projects],
       [id |-> "experience", label |-> Experience],
       [id |-> "resume", label |-> Resume],
       [id |-> "timeline", label |-> Timeline],
       [id |-> "contact", label |-> Contact] >>

PortfolioName == <<"I","n","t","e","r","a","c","t","i","v","e"," ","P","o","r","t","f","o","l","i","o"," ","W","e","b","s","i","t","e">>
PiName == <<"R","a","s","p","b","e","r","r","y"," ","P","i"," ","S","e","t","u","p"," ","+"," ","T","r","o","u","b","l","e","s","h","o","o","t","i","n","g"," ","N","o","t","e","s">>
OrganizerName == <<"3","D","-","P","r","i","n","t","e","d"," ","C","u","p"," ","&"," ","L","i","d"," ","O","r","g","a","n","i","z","e","r"," ","(","P","r","o","t","o","t","y","p","e",")">>

ContentProjects ==
    << [id |-> "portfolio", name |-> PortfolioName],
       [id |-> "pi", name |-> PiName],
       [id |-> "3d", name |-> OrganizerName] >>

\* sections.filter((s) => s.id !== "top"), the sections prop App gives the palette
PaletteSections == SelectSeq(AppSections, LAMBDA s : s.id # "top")

(***************************************************************************)
(* CommandPalette: the result list.                                        *)
(***************************************************************************)
MaxResults == 10

SectionItem(s) == [type |-> "section", id |-> s.id, label |-> s.label]
ProjectItem(p) == [type |-> "project", id |-> p.id, label |-> p.name]

\* the filter of the sections: query ? x.label.toLowerCase().includes(query) : true
SecFilter(x, query) ==
    IF query # <<>> THEN includes(toLowerCase(x.label), query) ELSE TRUE

\* variant: the label is compared without toLowerCase()
ProjFilterCaseSensitive(x, query) ==
    IF query # <<>> THEN includes(x.label, query) ELSE TRUE

\* the filter of the projects: query ? x.label.toLowerCase().includes(query) : true
ProjFilter(x, query) ==
    IF query # <<>> THEN includes(toLowerCase(x.label), query) ELSE TRUE

\* variant: [...proj, ...sec]
MergeProjectsFirst(sec, proj) == slice(proj \o sec, 0, MaxResults)

\* variant: no slice
MergeUncapped(sec, proj) == sec \o proj

\* [...sec, ...proj].slice(0, 10)
Merge(sec, proj) == slice(sec \o proj, 0, MaxResults)

\* the useMemo body of CommandPalette
Results(qq, secs, projs) ==
    LET query == toLowerCase(trim(qq))
        sec == SelectSeq([i \in 1..Len(secs) |-> SectionItem(secs[i])],
                         LAMBDA x : SecFilter(x, query))
        proj == SelectSeq([i \in 1..Len(projs) |-> ProjectItem(projs[i])],
                          LAMBDA x : ProjFilter(x, query))
    IN  Merge(sec, proj)

(***************************************************************************)
(* The document.                                                           *)
(***************************************************************************)
\* document.getElementById(id) finds an element
HasElement(d, id) == id \in DOMAIN d

\* the documents over the ids S whose elements have their top edge in T
Documents(S, T) == UNION {[P -> T] : P \in SUBSET S}

(***************************************************************************)
(* useScrollSpy.                                                           *)
(***************************************************************************)
DefaultOffset == 120
AppOffset == 140

AppSectionIds == [i \in 1..Len(AppSections) |-> AppSections[i].id]

Null == [null |-> TRUE]
Undefined == [undefined |-> TRUE]

\* variant: useState("")
InitialActiveEmpty(ids) == ""

\* useState(sectionIds[0] || "")
InitialActive(ids) == IF Len(ids) > 0 /\ ids[1] # "" THEN ids[1] ELSE ""

\* the map callback of handler: null for a missing element, else {id, top}
Position(d, id) ==
    IF ~HasElement(d, id) THEN Null ELSE [id |-> id, top |-> d[id]]

\* variant: no .filter(Boolean)
KeepNulls(ps) == ps

\* .filter(Boolean)
FilterBoolean(ps) == SelectSeq(ps, LAMBDA p : p # Null)

Positions(ids, d) == FilterBoolean([i \in 1..Len(ids) |-> Position(d, ids[i])])

\* reading p.top of a null entry is a TypeError
Throws(positions) == \E i \in 1..Len(positions) : positions[i] = Null

HandlerThrows(ids, d) == Throws(Positions(ids, d))

\* the filter p.top <= offset
Qualifies(p, off) == p.top <= off

\* variant: the comparator (a, b) => a.top - b.top
RECURSIVE InsertAsc(_, _)
InsertAsc(s, p) ==
    IF s = <<>> THEN <<p>>
    ELSE IF Head(s).top <= p.top THEN <<Head(s)>> \o InsertAsc(Tail(s), p)
    ELSE <<p>> \o s

\* p put into s, which is in descending order of top, behind the entries that
\* the comparator (a, b) => b.top - a.top does not place after it
RECURSIVE Insert(_, _)
Insert(s, p) ==
    IF s = <<>> THEN <<p>>
    ELSE IF Head(s).top >= p.top THEN <<Head(s)>> \o Insert(Tail(s), p)
    ELSE <<p>> \o s

\* .sort((a, b) => b.top - a.top): a stable sort, descending in top
RECURSIVE SortByTopDesc(_)
SortByTopDesc(s) ==
    IF s = <<>> THEN <<>>
    ELSE Insert(SortByTopDesc(SubSeq(s, 1, Len(s) - 1)), s[Len(s)])

\* const current = positions.filter(...).sort(...)[0]
Current(positions, off) ==
    LET sorted == SortByTopDesc(SelectSeq(positions, LAMBDA p : Qualifies(p, off)))
    IN  IF sorted = <<>> THEN Undefined ELSE sorted[1]

\* current?.id is truthy
Truthy(current) == current # Undefined /\ current.id # ""

\* the id handler() passes to setActive, Undefined when it does not call it
\* (no section qualifies, or the handler throws before)
Selected(ids, d, off) ==
    LET positions == Positions(ids, d)
    IN  IF Throws(positions) THEN Undefined
        ELSE LET current == Current(positions, off)
             IN  IF Truthy(current) THEN current ELSE Undefined

\* variant: setActive(current?.id || "")
NextActiveOrEmpty(ids, d, off, a) ==
    LET current == Selected(ids, d, off)
    IN  IF current # Undefined THEN current.id ELSE ""

\* variant: setActive(current?.id || sectionIds[0])
NextActiveOrFirst(ids, d, off, a) ==
    LET current == Selected(ids, d, off)
    IN  IF current # Undefined THEN current.id ELSE InitialActive(ids)

\* variant: the active section is kept for as long as it qualifies
NextActiveSticky(ids, d, off, a) ==
    LET current == Selected(ids, d, off)
    IN  IF HasElement(d, a) /\ d[a] <= off THEN a
        ELSE IF current # Undefined THEN current.id ELSE a

\* if (current?.id) setActive(current.id)
NextActive(ids, d, off, a) ==
    LET current == Selected(ids, d, off)
    IN  IF current # Undefined THEN current.id ELSE a

\* variant: the effect of useScrollSpy returns no cleanup
SpyEffectCleanupMissing(n) == n

\* the cleanup of the effect of useScrollSpy: removeEventListener("scroll", handler)
SpyEffectCleanup(n) == n - 1

\* the effect of useScrollSpy: addEventListener("scroll", handler) with the
\* handler of this run
SpyEffectRun(n) == n + 1

\* a render with a new sectionIds array: React runs the cleanup of the previous
\* effect and then the effect
SpyEffectRerun(n, rendered) ==
    IF rendered THEN SpyEffectRun(SpyEffectCleanup(n)) ELSE n

\* the effect of CommandPalette on [open, onClose] after a render of App (onClose
\* is a new function at every render): the cleanup of the previous run, which
\* had added a listener if the palette was open, then if (!open) return;
\* addEventListener("keydown", onKey)
EscEffect(n, wasOpen, open) ==
    (IF wasOpen THEN n - 1 ELSE n) + (IF open THEN 1 ELSE 0)

\* variant: handler() scrolls the element of the active section into view
HandlerScrollsToActive(d) ==
    IF HasElement(d, active) THEN <<[el |-> "section", id |-> active, block |-> "start"]>>
    ELSE <<>>

\* the scrollIntoView calls of handler(): it only measures, it calls none
HandlerScrolls(d) == <<>>

\* handler() run against the document d
RunHandler(d) ==
    /\ threw' = (threw \/ HandlerThrows(sectionIds, d))
    /\ active' = NextActive(sectionIds, d, offset, active)
    /\ everSet' = (everSet \/ Selected(sectionIds, d, offset) # Undefined)

(***************************************************************************)
(* Events.                                                                 *)
(***************************************************************************)
\* the page has not been reloaded yet
NeverLoaded == [theme |-> "none", event |-> "none", read |-> "unread"]

\* the read effect has not run
NotStarted == [read |-> "unread", initial |-> FALSE]

\* an event carries, besides its kind, the key and modifier of a keydown, the
\* result whose button was clicked, and whether the palette was open when the
\* event arrived (the listener and the buttons of the palette exist only then)
NoItem == [none |-> TRUE]
Ev(kind) ==
    [kind |-> kind, key |-> "", mod |-> FALSE, open |-> paletteOpen, item |-> NoItem]
KeyEv(e) ==
    [kind |-> "keydown", key |-> e.key, mod |-> (e.ctrlKey \/ e.metaKey),
     open |-> paletteOpen, item |-> NoItem]
ClickEv(r) ==
    [kind |-> "select", key |-> "", mod |-> FALSE, open |-> paletteOpen, item |-> r]

\* the steps that run handler()
EvalKinds == {"mount", "scroll", "rerender"}

(***************************************************************************)
(* Steps of useScrollSpy.                                                  *)
(***************************************************************************)
EmptyDocument == [id \in {} |-> 0]

\* the top edges a section can have, on both sides of the threshold off
Tops(off) == {-50, 30, off, off + 1}

\* the documents that differ from d in one element: removed, added or moved
OneChange(d, S, T) ==
    ({[x \in DOMAIN d \ {id} |-> d[x]] : id \in DOMAIN d}
     \cup {[x \in DOMAIN d \cup {p[1]} |-> IF x = p[1] THEN p[2] ELSE d[x]] : p \in S \X T})
    \ {d}

\* the effect of useScrollSpy at mount: handler(), then addEventListener
HookMount ==
    /\ phase = "rendered"
    /\ phase' = "mounted"
    /\ RunHandler(dom)
    /\ lastEvent' = Ev("mount")
    /\ issued' = HandlerScrolls(dom)
    /\ UNCHANGED <<sectionIds, offset, dom, paletteVars, themeVars, timers>>
    /\ scrollHandlers' = SpyEffectRun(scrollHandlers)
    /\ escHandlers' = escHandlers

\* a scroll event: the elements have moved to d, and the listener runs handler().
\* (When setActive changes the state and the component renders again with a new
\* sectionIds array, the effect runs handler() once more against the same
\* document, which selects the same section.)
Scroll(d) ==
    /\ phase = "mounted"
    /\ dom' = d
    /\ RunHandler(d)
    /\ lastEvent' = Ev("scroll")
    /\ issued' = HandlerScrolls(d)
    /\ UNCHANGED <<phase, sectionIds, offset, paletteVars, themeVars, timers>>
    /\ scrollHandlers' = SpyEffectRerun(scrollHandlers, active' # active)
    /\ escHandlers' = escHandlers

\* the layout changes without a scroll event (resize, content change): no
\* listener of the hook runs
LayoutShift(d) ==
    /\ phase = "mounted"
    /\ dom' = d
    /\ lastEvent' = Ev("layout")
    /\ issued' = <<>>
    /\ UNCHANGED <<phase, sectionIds, offset, active, everSet, threw,
                   paletteVars, themeVars, timers>>
    /\ UNCHANGED listenerVars

\* the component renders again with a new sectionIds array: the effect is
\* cleaned up (removeEventListener) and runs again: handler(), addEventListener
Rerender ==
    /\ phase = "mounted"
    /\ RunHandler(dom)
    /\ lastEvent' = Ev("rerender")
    /\ issued' = HandlerScrolls(dom)
    /\ UNCHANGED <<phase, sectionIds, offset, dom, paletteVars, themeVars, timers>>
    /\ scrollHandlers' = SpyEffectRerun(scrollHandlers, TRUE)
    /\ escHandlers' = escHandlers

\* the lists of section ids the hook is called with: the first ids of App after "top"
SpyLists ==
    {SubSeq(AppSectionIds, 2, 1 + n) : n \in 0..MaxSections}

SpyInit ==
    /\ phase = "rendered"
    /\ sectionIds \in SpyLists
    /\ offset = DefaultOffset
    /\ dom \in Documents(Range(sectionIds), Tops(offset))
    /\ active = InitialActive(sectionIds)
    /\ everSet = FALSE
    /\ threw = FALSE
    /\ issued = <<>>
    /\ sections = <<>> /\ projects = <<>>
    /\ paletteOpen = FALSE /\ q = <<>> /\ results = <<>>
    /\ dark = FALSE /\ rootDark = FALSE /\ stored = "none" /\ sysDark = "unavailable"
    /\ unloaded = NeverLoaded
    /\ startup = NotStarted
    /\ scrollHandlers = 0 /\ escHandlers = 0
    /\ timers = <<>>
    /\ lastEvent = Ev("render")

SpyNext ==
    \/ HookMount
    \/ \E d \in [DOMAIN dom -> Tops(offset)] : Scroll(d)
    \/ \E d \in OneChange(dom, Range(sectionIds), Tops(offset)) : LayoutShift(d)
    \/ Rerender

SpySpec == SpyInit /\ [][SpyNext]_vars

\* useMemo(..., [q, sections, projects]): the list is computed again when the
\* query changes (the props sections and projects never change)
Memo(nq) == IF nq = q THEN results ELSE Results(nq, sections, projects)

(***************************************************************************)
(* Typing in the palette.                                                  *)
(***************************************************************************)
\* onChange of the input: setQ(e.target.value); the render recomputes results
Type(nq) ==
    /\ phase = "mounted"
    /\ paletteOpen
    /\ q' = nq
    /\ results' = Memo(nq)
    /\ lastEvent' = Ev("type")
    /\ issued' = <<>>
    /\ UNCHANGED <<phase, spyVars, sections, projects, paletteOpen, themeVars, timers>>
    /\ UNCHANGED listenerVars

PORT == <<"P","O","R","T">>
PortLower == <<"p","o","r","t">>
PortPadded == <<" ","P","o","r","t"," ">>
NoMatch == <<"q","q">>
QueryAlphabet == {"o", "O", " "}

Queries ==
    UNION {[1..n -> QueryAlphabet] : n \in 0..MaxQueryLen} \cup {PORT, PortLower, PortPadded, NoMatch}

Blog == <<"B","l","o","g">>
ManySections == AppSections \o <<[id |-> "blog", label |-> Blog]>>
ManyProjects ==
    ContentProjects \o
    << [id |-> "notes", name |-> <<"N","o","t","e","s">>],
       [id |-> "port", name |-> <<"P","O","R","T"," ","s","c","a","n">>],
       [id |-> "zoo", name |-> <<"Z","o","o">>] >>

PropSections ==
    {<<>>, <<AppSections[1]>>, SubSeq(AppSections, 2, 3), PaletteSections, ManySections}
PropProjects ==
    {<<>>, <<ContentProjects[1]>>, ContentProjects, ManyProjects}

\* CommandPalette rendered open with the props sections and projects
SearchInit ==
    /\ phase = "mounted"
    /\ sections \in PropSections
    /\ projects \in PropProjects
    /\ paletteOpen = TRUE
    /\ q = <<>>
    /\ results = Results(<<>>, sections, projects)
    /\ sectionIds = <<>> /\ offset = DefaultOffset /\ dom = EmptyDocument
    /\ active = InitialActive(<<>>) /\ everSet = FALSE /\ threw = FALSE
    /\ issued = <<>>
    /\ dark = FALSE /\ rootDark = FALSE /\ stored = "none" /\ sysDark = "unavailable"
    /\ unloaded = NeverLoaded
    /\ startup = NotStarted
    /\ scrollHandlers = 0 /\ escHandlers = 0
    /\ timers = <<>>
    /\ lastEvent = Ev("render")

SearchNext == \E nq \in Queries : Type(nq)

SearchSpec == SearchInit /\ [][SearchNext]_vars

(***************************************************************************)
(* App: the overlay, the theme, selection and the deferred scroll.         *)
(***************************************************************************)
KeyK == <<"k">>
KeyUpperK == <<"K">>
KeyEscape == <<"E","s","c","a","p","e">>
KeyA == <<"a">>

\* App onKey: (e.ctrlKey || e.metaKey) && e.key?.toLowerCase() === "k"
IsShortcut(e) == (e.ctrlKey \/ e.metaKey) /\ toLowerCase(e.key) = KeyK

\* variant: the shortcut calls setPaletteOpen((v) => !v)
AfterKeyDownToggle(e, open) ==
    IF IsShortcut(e) THEN ~open
    ELSE IF open /\ e.key = KeyEscape THEN FALSE
    ELSE open

\* variant: the palette has no Escape listener
AfterKeyDownNoEscape(e, open) ==
    IF IsShortcut(e) THEN TRUE ELSE open

\* paletteOpen after a keydown event: the listener of App calls
\* setPaletteOpen(true) on the shortcut; the listener of CommandPalette, which
\* is registered only while open, calls onClose() on Escape
AfterKeyDown(e, open) ==
    IF IsShortcut(e) THEN TRUE
    ELSE IF open /\ e.key = KeyEscape THEN FALSE
    ELSE open

\* variant: the palette has no reset effect
ResetEffectNone(open, qq) == qq

\* the effect of CommandPalette on [open]: if (!open) setQ("")
ResetEffect(open, qq) == IF ~open THEN <<>> ELSE qq

\* variant: the system preference is consulted first
InitialThemeSystemFirst(st, sys) ==
    IF sys # "unavailable" THEN sys = "dark" ELSE st = "dark"

\* window.localStorage.getItem / setItem throw (storage blocked); no try/catch
StorageThrows(st) == st = "unavailable"

\* stored ? stored === "dark" : matchMedia?.(...)?.matches, then !!initial
\* (null and the empty string are falsy)
InitialTheme(st, sys) == IF st \notin {"none", ""} THEN st = "dark" ELSE sys = "dark"

\* the value written by localStorage.setItem("theme", dark ? "dark" : "light")
ThemeName(d) == IF d THEN "dark" ELSE "light"

\* variant: the effect sets the class and does not call setItem
PersistEffectClassOnly(d) ==
    /\ rootDark' = d
    /\ stored' = stored

\* the effect of App on [dark]: the class of the root element and the stored slot
PersistEffect(d) ==
    /\ rootDark' = d
    /\ stored' = ThemeName(d)

\* variant: a missing element makes scrollToId scroll to the top of the page
scrollToIdOrTop(d, id) ==
    IF HasElement(d, id) THEN <<[el |-> "section", id |-> id, block |-> "start"]>>
    ELSE <<[el |-> "section", id |-> "top", block |-> "start"]>>

\* the scrollIntoView call of scrollToId(id), none when the element is missing
scrollToId(d, id) ==
    IF HasElement(d, id) THEN <<[el |-> "section", id |-> id, block |-> "start"]>> ELSE <<>>

\* the element project-<id> is rendered for every project of CONTENT
HasCard(id) == \E i \in 1..Len(ContentProjects) : ContentProjects[i].id = id

\* variant: the callback looks the card up by the bare id of the project, which
\* is the id of no card
ScrollToCardBareId(id) ==
    IF HasElement(dom, id) THEN <<[el |-> "card", id |-> id, block |-> "center"]>> ELSE <<>>

\* the callback of setTimeout: el?.scrollIntoView({block: "center"})
ScrollToCard(id) ==
    IF HasCard(id) THEN <<[el |-> "card", id |-> id, block |-> "center"]>> ELSE <<>>

\* App renders again after a change of its state: the effect of useScrollSpy,
\* whose dependency sectionIds is a new array at every render, is cleaned up and
\* runs again, calling handler()
AppRender(changed) ==
    /\ IF changed THEN RunHandler(dom) ELSE UNCHANGED <<active, everSet, threw>>
    /\ scrollHandlers' = SpyEffectRerun(scrollHandlers, changed)

\* paletteOpen becomes open: the palette resets the query when it closes, and
\* its memoised results follow the query
SetPaletteOpen(open) ==
    /\ paletteOpen' = open
    /\ q' = ResetEffect(open, q)
    /\ results' = Memo(ResetEffect(open, q))
    /\ AppRender(open # paletteOpen)
    /\ escHandlers' = IF open # paletteOpen
                      THEN EscEffect(escHandlers, paletteOpen, open)
                      ELSE escHandlers

\* the first effects of App and of its hooks, and the render they cause: the
\* scroll-spy handler runs; the stored theme is read and setDark called; the
\* persist effect runs with the initial dark = false and again after the render
\* if dark changed; the keydown listener of App is added
\* When localStorage throws, the theme effects throw (getItem in the first,
\* setItem in the second, after classList.remove): the state updates they
\* precede are never rendered and React removes the tree.
Mount ==
    /\ phase = "rendered"
    /\ IF StorageThrows(stored)
       THEN /\ phase' = "crashed"
            /\ threw' = TRUE
            /\ rootDark' = FALSE
            /\ UNCHANGED <<active, everSet, dark, stored>>
       ELSE /\ phase' = "mounted"
            /\ RunHandler(dom)
            /\ dark' = InitialTheme(stored, sysDark)
            /\ PersistEffect(InitialTheme(stored, sysDark))
    /\ lastEvent' = Ev("mount")
    /\ issued' = <<>>
    /\ UNCHANGED <<sectionIds, offset, dom, paletteVars, sysDark, unloaded, startup, timers>>
    /\ scrollHandlers' = IF StorageThrows(stored)
                         THEN SpyEffectCleanup(SpyEffectRun(scrollHandlers))
                         ELSE SpyEffectRun(scrollHandlers)
    /\ escHandlers' = escHandlers

\* a keydown event on window
KeyDown(e) ==
    /\ phase = "mounted"
    /\ SetPaletteOpen(AfterKeyDown(e, paletteOpen))
    /\ lastEvent' = KeyEv(e)
    /\ issued' = <<>>
    /\ UNCHANGED <<phase, sectionIds, offset, dom, sections, projects, themeVars, timers>>

\* the Search button: setPaletteOpen(true)
ClickSearch ==
    /\ phase = "mounted"
    /\ SetPaletteOpen(TRUE)
    /\ lastEvent' = Ev("search")
    /\ issued' = <<>>
    /\ UNCHANGED <<phase, sectionIds, offset, dom, sections, projects, themeVars, timers>>

\* the backdrop button of the open palette: onClose()
ClickBackdrop ==
    /\ phase = "mounted"
    /\ paletteOpen
    /\ SetPaletteOpen(FALSE)
    /\ lastEvent' = Ev("backdrop")
    /\ issued' = <<>>
    /\ UNCHANGED <<phase, sectionIds, offset, dom, sections, projects, themeVars, timers>>

\* the button of the k-th result: onClose(), then the scroll of the result
SelectResult(k) ==
    /\ phase = "mounted"
    /\ paletteOpen
    /\ k \in 1..Len(results)
    /\ results[k].type = "project" => Len(timers) < MaxTimers
    /\ SetPaletteOpen(FALSE)
    /\ IF results[k].type = "project"
       THEN /\ issued' = scrollToId(dom, "projects")
            /\ timers' = Append(timers, results[k].id)
       ELSE /\ issued' = scrollToId(dom, results[k].id)
            /\ timers' = timers
    /\ lastEvent' = ClickEv(results[k])
    /\ UNCHANGED <<phase, sectionIds, offset, dom, sections, projects, themeVars>>

\* variant: the callback is dropped when the palette has been opened again
TimerFireUnlessOpen ==
    /\ phase = "mounted"
    /\ timers # <<>>
    /\ issued' = IF paletteOpen THEN <<>> ELSE ScrollToCard(Head(timers))
    /\ timers' = Tail(timers)
    /\ lastEvent' = Ev("timer")
    /\ UNCHANGED <<phase, spyVars, paletteVars, themeVars>>
    /\ UNCHANGED listenerVars

\* the oldest pending timer fires (all timers have the same delay)
TimerFire ==
    /\ phase = "mounted"
    /\ timers # <<>>
    /\ issued' = ScrollToCard(Head(timers))
    /\ timers' = Tail(timers)
    /\ lastEvent' = Ev("timer")
    /\ UNCHANGED <<phase, spyVars, paletteVars, themeVars>>
    /\ UNCHANGED listenerVars

\* the theme button: setDark((v) => !v), then the persist effect
ToggleTheme ==
    /\ phase = "mounted"
    /\ dark' = ~dark
    /\ PersistEffect(~dark)
    /\ AppRender(TRUE)
    /\ lastEvent' = Ev("toggle")
    /\ issued' = <<>>
    /\ UNCHANGED <<phase, sectionIds, offset, dom, paletteVars, sysDark, unloaded, startup, timers>>
    /\ escHandlers' = EscEffect(escHandlers, paletteOpen, paletteOpen)

\* a navigation button: scrollToId(id)
NavClick(id) ==
    /\ phase = "mounted"
    /\ issued' = scrollToId(dom, id)
    /\ lastEvent' = Ev("nav")
    /\ UNCHANGED <<phase, spyVars, paletteVars, themeVars, timers>>
    /\ UNCHANGED listenerVars

\* the page: every section of App has its element; section i starts 600 pixels
\* below section i - 1, and the viewport is scrolled by y
PageDocument(y) ==
    [id \in Range(AppSectionIds) |->
        (CHOOSE i \in 1..Len(AppSectionIds) : AppSectionIds[i] = id) * 600 - 600 - y]

ScrollStops == {0, 500, 1060}
PageDocuments == {PageDocument(y) : y \in ScrollStops}

KeyEvents ==
    { [key |-> KeyK, ctrlKey |-> TRUE, metaKey |-> FALSE],
      [key |-> KeyUpperK, ctrlKey |-> FALSE, metaKey |-> TRUE],
      [key |-> KeyK, ctrlKey |-> FALSE, metaKey |-> FALSE],
      [key |-> KeyA, ctrlKey |-> TRUE, metaKey |-> FALSE],
      [key |-> KeyEscape, ctrlKey |-> FALSE, metaKey |-> FALSE] }

TypedQueries == {<<>>, PORT, NoMatch}
NavTargets == {"top", "projects"}

Init ==
    /\ phase = "rendered"
    /\ sectionIds = AppSectionIds
    /\ offset = AppOffset
    /\ dom \in PageDocuments
    /\ active = InitialActive(sectionIds)
    /\ everSet = FALSE
    /\ threw = FALSE
    /\ issued = <<>>
    /\ sections = PaletteSections
    /\ projects = ContentProjects
    /\ paletteOpen = FALSE
    /\ q = <<>>
    /\ results = Results(<<>>, sections, projects)
    /\ dark = FALSE
    /\ rootDark = FALSE
    /\ stored \in {"none", "dark", "light"}
    /\ sysDark \in {"dark", "light", "unavailable"}
    /\ unloaded = NeverLoaded
    /\ startup = NotStarted
    /\ scrollHandlers = 0 /\ escHandlers = 0
    /\ timers = <<>>
    /\ lastEvent = Ev("render")

Next ==
    \/ Mount
    \/ \E d \in PageDocuments : Scroll(d)
    \/ \E d \in PageDocuments \ {dom} : LayoutShift(d)
    \/ \E e \in KeyEvents : KeyDown(e)
    \/ ClickSearch
    \/ ClickBackdrop
    \/ \E nq \in TypedQueries : Type(nq)
    \/ \E k \in 1..MaxResults : SelectResult(k)
    \/ TimerFire
    \/ ToggleTheme
    \/ \E id \in NavTargets : NavClick(id)

Spec == Init /\ [][Next]_vars

(***************************************************************************)
(* The theme across page loads: the slot may hold any string or be         *)
(* unavailable, the page scrolls, the theme is toggled, and the page is    *)
(* reloaded, which starts App afresh with the storage as it was left.      *)
(***************************************************************************)
StoredValues == {"none", "", "dark", "light", "other", "unavailable"}
SystemValues == {"dark", "light", "unavailable"}

\* the page is unloaded and loaded again: a new document, the first render of a
\* new App, no timers; localStorage survives, the system preference may differ
Reload ==
    /\ phase # "rendered"
    /\ phase' = "rendered"
    /\ dom' \in PageDocuments
    /\ active' = InitialActive(sectionIds)
    /\ everSet' = FALSE
    /\ threw' = FALSE
    /\ paletteOpen' = FALSE
    /\ q' = <<>>
    /\ results' = Memo(<<>>)
    /\ dark' = FALSE
    /\ rootDark' = FALSE
    /\ stored' = stored
    /\ sysDark' \in SystemValues
    /\ unloaded' = [theme |-> IF phase = "mounted" THEN ThemeName(dark) ELSE "none",
                    event |-> lastEvent.kind,
                    read |-> startup.read]
    /\ startup' = NotStarted
    /\ timers' = <<>>
    /\ lastEvent' = Ev("reload")
    /\ issued' = <<>>
    /\ UNCHANGED <<sectionIds, offset, sections, projects>>
    /\ scrollHandlers' = 0
    /\ escHandlers' = 0

ThemeInit ==
    /\ phase = "rendered"
    /\ sectionIds = AppSectionIds
    /\ offset = AppOffset
    /\ dom \in PageDocuments
    /\ active = InitialActive(sectionIds)
    /\ everSet = FALSE
    /\ threw = FALSE
    /\ issued = <<>>
    /\ sections = PaletteSections
    /\ projects = ContentProjects
    /\ paletteOpen = FALSE
    /\ q = <<>>
    /\ results = Results(<<>>, sections, projects)
    /\ dark = FALSE
    /\ rootDark = FALSE
    /\ stored \in StoredValues
    /\ sysDark \in SystemValues
    /\ unloaded = NeverLoaded
    /\ startup = NotStarted
    /\ scrollHandlers = 0 /\ escHandlers = 0
    /\ timers = <<>>
    /\ lastEvent = Ev("render")

ThemeNext ==
    \/ Mount
    \/ \E d \in PageDocuments : Scroll(d)
    \/ ToggleTheme
    \/ Reload

ThemeSpec == ThemeInit /\ [][ThemeNext]_vars

(***************************************************************************)
(* The startup of the theme taken effect by effect: the effects of the     *)
(* first commit run together (the read effect calls setDark, the persist   *)
(* effect runs with the initial dark = false), then App renders again with *)
(* the new state and the persist effect runs again if dark changed.        *)
(***************************************************************************)
\* variant: the persist effect is declared before the read effect, which then
\* reads what the persist effect has just written
StartupEffectsPersistFirst ==
    /\ phase = "rendered"
    /\ IF StorageThrows(stored)
       THEN /\ phase' = "crashed"
            /\ threw' = TRUE
            /\ rootDark' = FALSE
            /\ UNCHANGED <<active, everSet, dark, stored, startup>>
       ELSE /\ phase' = "effects"
            /\ RunHandler(dom)
            /\ PersistEffect(dark)
            /\ startup' = [read |-> stored,
                           initial |-> InitialTheme(ThemeName(dark), sysDark)]
            /\ dark' = dark
    /\ lastEvent' = Ev("effects")
    /\ issued' = <<>>
    /\ UNCHANGED <<sectionIds, offset, dom, paletteVars, sysDark, unloaded, timers>>
    /\ scrollHandlers' = IF StorageThrows(stored)
                         THEN SpyEffectCleanup(SpyEffectRun(scrollHandlers))
                         ELSE SpyEffectRun(scrollHandlers)
    /\ escHandlers' = escHandlers

\* the effects after the first render, in the order of their hooks: the handler
\* of useScrollSpy, the read effect (getItem, matchMedia, setDark(!!initial)),
\* the persist effect with dark = false
StartupEffects ==
    /\ phase = "rendered"
    /\ IF StorageThrows(stored)
       THEN /\ phase' = "crashed"
            /\ threw' = TRUE
            /\ rootDark' = FALSE
            /\ UNCHANGED <<active, everSet, dark, stored, startup>>
       ELSE /\ phase' = "effects"
            /\ RunHandler(dom)
            /\ startup' = [read |-> stored, initial |-> InitialTheme(stored, sysDark)]
            /\ dark' = dark
            /\ PersistEffect(dark)
    /\ lastEvent' = Ev("effects")
    /\ issued' = <<>>
    /\ UNCHANGED <<sectionIds, offset, dom, paletteVars, sysDark, unloaded, timers>>
    /\ scrollHandlers' = IF StorageThrows(stored)
                         THEN SpyEffectCleanup(SpyEffectRun(scrollHandlers))
                         ELSE SpyEffectRun(scrollHandlers)
    /\ escHandlers' = escHandlers

\* the render caused by setDark and setActive, and its effects: the persist
\* effect runs again only if dark changed ([dark] dependency)
StartupSettle ==
    /\ phase = "effects"
    /\ phase' = "mounted"
    /\ dark' = startup.initial
    /\ IF startup.initial # dark
       THEN PersistEffect(startup.initial)
       ELSE UNCHANGED <<rootDark, stored>>
    /\ AppRender(TRUE)
    /\ lastEvent' = Ev("settle")
    /\ issued' = <<>>
    /\ UNCHANGED <<sectionIds, offset, dom, paletteVars, sysDark, unloaded, startup, timers>>
    /\ escHandlers' = EscEffect(escHandlers, paletteOpen, paletteOpen)

StartupNext ==
    \/ StartupEffects
    \/ StartupSettle
    \/ ToggleTheme
    \/ Reload

StartupSpec == ThemeInit /\ [][StartupNext]_vars

(***************************************************************************)
(* The listeners over the life of App: it is mounted, renders again after  *)
(* its events, and is removed, which runs the cleanup of every effect.     *)
(***************************************************************************)
\* App is unmounted: the cleanups of useScrollSpy and of the palette run; the
\* state is gone and is left as it was
Unmount ==
    /\ phase = "mounted"
    /\ phase' = "unmounted"
    /\ scrollHandlers' = SpyEffectCleanup(scrollHandlers)
    /\ escHandlers' = EscEffect(escHandlers, paletteOpen, FALSE)
    /\ lastEvent' = Ev("unmount")
    /\ issued' = <<>>
    /\ UNCHANGED <<spyVars, paletteVars, themeVars, timers>>

ListenerInit ==
    /\ phase = "rendered"
    /\ sectionIds = AppSectionIds
    /\ offset = AppOffset
    /\ dom \in PageDocuments
    /\ active = InitialActive(sectionIds)
    /\ everSet = FALSE
    /\ threw = FALSE
    /\ issued = <<>>
    /\ sections = PaletteSections
    /\ projects = ContentProjects
    /\ paletteOpen = FALSE
    /\ q = <<>>
    /\ results = Results(<<>>, sections, projects)
    /\ dark = FALSE
    /\ rootDark = FALSE
    /\ stored \in {"none", "unavailable"}
    /\ sysDark = "unavailable"
    /\ unloaded = NeverLoaded
    /\ startup = NotStarted
    /\ timers = <<>>
    /\ scrollHandlers = 0 /\ escHandlers = 0
    /\ lastEvent = Ev("render")

ListenerNext ==
    \/ Mount
    \/ \E d \in PageDocuments : Scroll(d)
    \/ \E e \in KeyEvents : KeyDown(e)
    \/ ClickSearch
    \/ ClickBackdrop
    \/ \E nq \in TypedQueries : Type(nq)
    \/ ToggleTheme
    \/ Unmount

ListenerSpec == ListenerInit /\ [][ListenerNext]_vars

(***************************************************************************)
(* The palette alone: the page does not move and the theme is left alone,  *)
(* and the host may lack the element of a section the palette lists.       *)
(* A timer set by setTimeout fires once its delay has passed, whatever     *)
(* else happens on the page: weak fairness of TimerFire.                   *)
(***************************************************************************)
Without(d, id) == [x \in DOMAIN d \ {id} |-> d[x]]

PaletteDocuments ==
    {PageDocument(0), Without(PageDocument(0), "skills"), Without(PageDocument(0), "contact")}

PaletteInit ==
    /\ phase = "rendered"
    /\ sectionIds = AppSectionIds
    /\ offset = AppOffset
    /\ dom \in PaletteDocuments
    /\ active = InitialActive(sectionIds)
    /\ everSet = FALSE
    /\ threw = FALSE
    /\ issued = <<>>
    /\ sections = PaletteSections
    /\ projects = ContentProjects
    /\ paletteOpen = FALSE
    /\ q = <<>>
    /\ results = Results(<<>>, sections, projects)
    /\ dark = FALSE
    /\ rootDark = FALSE
    /\ stored = "none"
    /\ sysDark = "unavailable"
    /\ unloaded = NeverLoaded
    /\ startup = NotStarted
    /\ scrollHandlers = 0 /\ escHandlers = 0
    /\ timers = <<>>
    /\ lastEvent = Ev("render")

PaletteNext ==
    \/ Mount
    \/ \E e \in KeyEvents : KeyDown(e)
    \/ ClickSearch
    \/ ClickBackdrop
    \/ \E nq \in TypedQueries : Type(nq)
    \/ \E k \in 1..MaxResults : SelectResult(k)
    \/ TimerFire

PaletteSpec == PaletteInit /\ [][PaletteNext]_vars /\ WF_vars(TimerFire)

(***************************************************************************)
(* Properties of useScrollSpy (specification SpySpec).                     *)
(***************************************************************************)
\* the last step ran handler() against the document dom
IsEval == lastEvent.kind \in EvalKinds

\* the configured sections that have an element whose top edge is at or above
\* the threshold
QualifyingIds == {id \in Range(sectionIds) : HasElement(dom, id) /\ dom[id] <= offset}

\* C1: with a non-empty list of section ids, the active section is always one
\* of the configured ids, whatever the positions and whichever elements are
\* missing.
C1_ActiveIsConfigured ==
    Len(sectionIds) > 0 => active \in Range(sectionIds)

C1_Witness ==
    /\ lastEvent.kind = "scroll"
    /\ everSet
    /\ active # sectionIds[1]
    /\ \E id \in Range(sectionIds) : ~HasElement(dom, id)

\* C2: after an evaluation in which some present section has top <= offset
\* (top = offset included), the active section is a qualifying section whose
\* top is the largest of the qualifying ones; about = -50, skills = 30 under
\* the threshold 120 gives skills.
C2_SelectsLargestQualifying ==
    /\ (IsEval /\ QualifyingIds # {}) =>
            /\ active \in QualifyingIds
            /\ \A id \in QualifyingIds : dom[id] <= dom[active]
    /\ (/\ IsEval
        /\ offset = 120
        /\ sectionIds = <<"about", "skills">>
        /\ DOMAIN dom = {"about", "skills"}
        /\ dom["about"] = -50
        /\ dom["skills"] = 30) => active = "skills"

C2_Witness ==
    /\ lastEvent.kind = "scroll"
    /\ offset = 120
    /\ sectionIds = <<"about", "skills">>
    /\ DOMAIN dom = {"about", "skills"}
    /\ dom["about"] = -50
    /\ dom["skills"] = 30
    /\ active = "skills"

C2_WitnessBoundary ==
    /\ IsEval
    /\ Cardinality(QualifyingIds) = 1
    /\ \A id \in QualifyingIds : dom[id] = offset /\ active = id
    /\ active # sectionIds[1]

\* C3 as stated: an evaluation that finds no qualifying section leaves the
\* first configured section active, whichever section was active before.
C3_FallsBackToFirst ==
    (IsEval /\ Len(sectionIds) > 0 /\ QualifyingIds = {}) => active = sectionIds[1]

\* C3 amended: an evaluation that finds no qualifying section leaves the active
\* section as it was; that is the first configured section when no earlier
\* evaluation has selected a section.
C3_KeepsActiveFirstOnlyIfNeverSet ==
    [][(IsEval' /\ Len(sectionIds) > 0 /\ QualifyingIds' = {}) =>
            /\ active' = active
            /\ (~everSet => active' = sectionIds[1])]_vars

C3_Witness ==
    /\ IsEval
    /\ QualifyingIds = {}
    /\ everSet
    /\ Len(sectionIds) > 1
    /\ active = sectionIds[2]

\* C4: an evaluation in which no section qualifies does not call setActive:
\* the active section is exactly what it was before the evaluation.
C4_NoQualifierLeavesActive ==
    [][(IsEval' /\ QualifyingIds' = {}) => (active' = active /\ everSet' = everSet)]_vars

C4_Witness ==
    /\ lastEvent.kind = "rerender"
    /\ QualifyingIds = {}
    /\ DOMAIN dom # {}
    /\ everSet
    /\ active # sectionIds[1]

\* C5: from the first render on, as long as no evaluation has found a
\* qualifying section, the active section is the first configured id.
C5_FirstUntilQualifies ==
    (Len(sectionIds) > 0 /\ ~everSet) => active = sectionIds[1]

C5_Witness ==
    /\ phase = "mounted"
    /\ lastEvent.kind = "scroll"
    /\ ~everSet
    /\ Len(sectionIds) > 1
    /\ DOMAIN dom = Range(sectionIds)
    /\ active = sectionIds[1]

\* C6: a configured id without an element is skipped by every evaluation: the
\* evaluation does not throw, it never makes such an id the active one, and it
\* leaves the active section that the list without the missing ids would give.
C6_MissingElementSkipped ==
    [][IsEval' =>
            /\ ~threw'
            /\ (active' # active => HasElement(dom', active'))
            /\ active' = NextActive(SelectSeq(sectionIds, LAMBDA id : HasElement(dom', id)),
                                    dom', offset, active)]_vars

C6_Witness ==
    /\ IsEval
    /\ ~threw
    /\ Len(sectionIds) > 1
    /\ ~HasElement(dom, sectionIds[1])
    /\ everSet
    /\ active # sectionIds[1]
    /\ HasElement(dom, active)

(***************************************************************************)
(* Properties of the result list (specification SearchSpec).               *)
(***************************************************************************)
\* the candidates: the sections, then the projects
AllItems ==
    [i \in 1..(Len(sections) + Len(projects)) |->
        IF i <= Len(sections)
        THEN [type |-> "section", id |-> sections[i].id, label |-> sections[i].label]
        ELSE [type |-> "project", id |-> projects[i - Len(sections)].id,
              label |-> projects[i - Len(sections)].name]]

\* t occurs in s as a run of consecutive characters
IsSubstring(t, s) ==
    \E i \in 1..(Len(s) + 1) :
        /\ i + Len(t) - 1 <= Len(s)
        /\ \A k \in 1..Len(t) : s[i + k - 1] = t[k]

\* the candidate labelled label matches the query qq
IsMatch(label, qq) ==
    \/ trim(toLowerCase(qq)) = <<>>
    \/ IsSubstring(trim(toLowerCase(qq)), toLowerCase(label))

MatchList == SelectSeq(AllItems, LAMBDA x : IsMatch(x.label, q))

\* r is s with some of its elements left out
RECURSIVE IsSubsequence(_, _)
IsSubsequence(r, s) ==
    IF r = <<>> THEN TRUE
    ELSE IF s = <<>> THEN FALSE
    ELSE IF Head(r) = Head(s) THEN IsSubsequence(Tail(r), Tail(s))
    ELSE IsSubsequence(r, Tail(s))

Min(a, b) == IF a < b THEN a ELSE b

\* C7: a candidate is a match iff the trimmed, lowercased query is empty or
\* occurs in the lowercased label: every result is a match, every match is a
\* result while the list is not full, queries that differ in case or in
\* surrounding blanks give the same list, and "PORT" finds the project
\* "Interactive Portfolio Website" and not the section "Home".
C7_MatchIsCaseInsensitiveSubstring ==
    /\ \A k \in 1..Len(results) : IsMatch(results[k].label, q)
    /\ \A i \in 1..Len(AllItems) :
            (IsMatch(AllItems[i].label, q) /\ Len(results) < MaxResults) =>
                \E k \in 1..Len(results) : results[k] = AllItems[i]
    /\ \A q2 \in Queries :
            trim(toLowerCase(q2)) = trim(toLowerCase(q)) =>
                Results(q2, sections, projects) = results
    /\ (q = PORT /\ sections = <<AppSections[1]>> /\ projects = <<ContentProjects[1]>>) =>
            results = <<[type |-> "project", id |-> "portfolio", label |-> PortfolioName]>>

C7_Witness ==
    /\ lastEvent.kind = "type"
    /\ q = PORT
    /\ sections = <<AppSections[1]>>
    /\ projects = <<ContentProjects[1]>>
    /\ Len(results) = 1
    /\ results[1].type = "project"

\* C8: in the result list every section comes before every project, and the
\* list is sections ++ projects with some items left out, so each group keeps
\* its input order; the empty query over 2 sections and 1 project gives all 3.
C8_SectionsFirstInputOrder ==
    /\ \A i, j \in 1..Len(results) :
            i < j => ~(results[i].type = "project" /\ results[j].type = "section")
    /\ IsSubsequence(results, AllItems)
    /\ (q = <<>> /\ Len(sections) = 2 /\ Len(projects) = 1) => results = AllItems

C8_Witness ==
    /\ lastEvent.kind = "type"
    /\ trim(q) # <<>>
    /\ Len(results) < Len(AllItems)
    /\ Cardinality({k \in 1..Len(results) : results[k].type = "section"}) >= 2
    /\ Cardinality({k \in 1..Len(results) : results[k].type = "project"}) >= 2

\* C9: with m matching candidates the result list is the first min(10, m)
\* items of the list of matches: 15 matches give 10, none gives the empty list.
C9_CappedAtTen ==
    /\ Len(results) = Min(10, Len(MatchList))
    /\ results = SubSeq(MatchList, 1, Min(10, Len(MatchList)))

C9_Witness ==
    /\ lastEvent.kind = "type"
    /\ Len(MatchList) = 15
    /\ Len(results) = 10
    /\ results[10].type = "project"

C9_WitnessNone ==
    /\ lastEvent.kind = "type"
    /\ Len(AllItems) > 0
    /\ Len(MatchList) = 0
    /\ results = <<>>

(***************************************************************************)
(* Properties of the overlay (specification Spec).                         *)
(***************************************************************************)
\* the last event was the shortcut (Ctrl or Cmd with k, in either case) or the
\* Search button
IsOpenEvent(ev) ==
    \/ ev.kind = "search"
    \/ ev.kind = "keydown" /\ ev.mod /\ ev.key \in {KeyK, KeyUpperK}

\* the last event was Escape, a click on the backdrop or the choice of a result
IsCloseEvent(ev) ==
    \/ ev.kind \in {"backdrop", "select"}
    \/ ev.kind = "keydown" /\ ev.key = KeyEscape

\* C10: the overlay is Closed or Open and starts Closed; it goes from Closed to
\* Open on the shortcut or the Search button and on nothing else, and from Open
\* to Closed on Escape, a backdrop click or a selection and on nothing else;
\* typing, scrolling, the theme toggle and Escape while Closed leave it as it is.
C10_OverlayStateMachine ==
    /\ paletteOpen = FALSE
    /\ [][/\ paletteOpen' \in BOOLEAN
          /\ (~paletteOpen /\ paletteOpen') => IsOpenEvent(lastEvent')
          /\ (paletteOpen /\ ~paletteOpen') => IsCloseEvent(lastEvent')
          /\ IsOpenEvent(lastEvent') => paletteOpen'
          /\ (paletteOpen /\ IsCloseEvent(lastEvent')) => ~paletteOpen'
          /\ lastEvent'.kind \in {"type", "scroll", "layout", "toggle", "timer", "nav"} =>
                paletteOpen' = paletteOpen]_vars

C10_Witness ==
    /\ lastEvent.kind = "select"
    /\ ~paletteOpen
    /\ dark
    /\ everSet
    /\ issued # <<>>

(***************************************************************************)
(* Properties of the palette's life cycle (specification PaletteSpec).     *)
(***************************************************************************)
IsEscape(ev) == ev.kind = "keydown" /\ ev.key = KeyEscape

\* C11: whenever the overlay goes from Closed to Open, the query it shows is
\* the empty string, whatever was typed before the previous close and however
\* it was closed
C11_OpensWithEmptyQuery ==
    [][(~paletteOpen /\ paletteOpen') => q' = <<>>]_vars

\* the overlay has just been opened again after a selection closed it (the
\* timer of that selection is still pending), and shows the empty query
C11_Witness ==
    /\ paletteOpen
    /\ ~lastEvent.open
    /\ IsOpenEvent(lastEvent)
    /\ timers # <<>>
    /\ q = <<>>

\* C12: Escape pressed while the overlay is Open closes it, issues no scroll
\* and schedules no deferred callback
C12_EscapeOnlyCloses ==
    [][(IsEscape(lastEvent') /\ paletteOpen)
          => (~paletteOpen' /\ issued' = <<>> /\ timers' = timers)]_vars

\* Escape arrived while the overlay was open: it is closed, nothing was
\* scrolled, and the timer that was pending is still the only one
C12_Witness ==
    /\ IsEscape(lastEvent)
    /\ lastEvent.open
    /\ ~paletteOpen
    /\ issued = <<>>
    /\ Len(timers) = 1

ProjectIds == {ContentProjects[i].id : i \in 1..Len(ContentProjects)}
SectionScroll(id) == [el |-> "section", id |-> id, block |-> "start"]
CardScroll(id) == [el |-> "card", id |-> id, block |-> "center"]
IsProjectChoice(ev) == ev.kind = "select" /\ ev.item.type = "project"
IsSectionChoice(ev) == ev.kind = "select" /\ ev.item.type = "section"

\* C13: selecting a project result closes the overlay, issues at once one
\* scroll to the "projects" region and schedules exactly one deferred callback;
\* callbacks are scheduled by nothing else; when the callback runs it issues one
\* scroll centring the card of that project; a card scroll is issued only by
\* such a callback, hence after the scroll to the region; and a pending callback
\* eventually runs and issues its scroll
C13_ProjectSelection ==
    /\ [][IsProjectChoice(lastEvent')
             => /\ ~paletteOpen'
                /\ issued' = <<SectionScroll("projects")>>
                /\ timers' = Append(timers, lastEvent'.item.id)]_vars
    /\ [][Len(timers') > Len(timers) => IsProjectChoice(lastEvent')]_vars
    /\ [][lastEvent'.kind = "timer"
             => /\ timers # <<>>
                /\ issued' = <<CardScroll(Head(timers))>>
                /\ timers' = Tail(timers)]_vars
    /\ [][(\E i \in 1..Len(issued') : issued'[i].el = "card")
             => lastEvent'.kind = "timer"]_vars
    /\ \A id \in ProjectIds :
          (timers # <<>> /\ Head(timers) = id)
              ~> (lastEvent.kind = "timer" /\ issued = <<CardScroll(id)>>)

\* the callback of a selected project has just run and centred its card
C13_Witness ==
    /\ lastEvent.kind = "timer"
    /\ issued = <<CardScroll("pi")>>
    /\ timers = <<>>
    /\ ~paletteOpen

\* C14: selecting a section result closes the overlay, schedules no deferred
\* callback, and issues exactly one scroll, to the element of that section; when
\* the document has no such element no scroll is issued and the overlay is
\* closed all the same
C14_SectionSelection ==
    [][IsSectionChoice(lastEvent')
          => /\ ~paletteOpen'
             /\ timers' = timers
             /\ issued' = IF lastEvent'.item.id \in DOMAIN dom
                           THEN <<SectionScroll(lastEvent'.item.id)>>
                           ELSE <<>>]_vars

\* a section whose element is missing was selected: nothing was scrolled and the
\* overlay is closed
C14_Witness ==
    /\ IsSectionChoice(lastEvent)
    /\ lastEvent.item.id \notin DOMAIN dom
    /\ issued = <<>>
    /\ ~paletteOpen

(***************************************************************************)
(* Properties of the theme (specification ThemeSpec).                      *)
(***************************************************************************)
\* the slot holds a preference: a non-empty string that could be read
StoredPresent(st) == st \notin {"none", "", "unavailable"}

\* C15: when startup has settled, the theme is dark iff the stored preference
\* is "dark" if there is a stored preference; otherwise dark iff the platform
\* reports a dark colour scheme; and light when there is neither a stored
\* preference nor a platform query. The root class shows that theme.
C15_StartupTheme ==
    [][(lastEvent'.kind = "mount" /\ phase' = "mounted")
          => /\ dark' = CASE StoredPresent(stored) -> (stored = "dark")
                           [] sysDark # "unavailable" -> (sysDark = "dark")
                           [] OTHER -> FALSE
             /\ rootDark' = dark']_vars

\* first startup with "dark" stored while the platform prefers light: dark
C15_Witness ==
    /\ lastEvent.kind = "mount"
    /\ phase = "mounted"
    /\ unloaded = NeverLoaded
    /\ dark
    /\ rootDark
    /\ sysDark = "light"

\* C16: every toggle flips the theme, and after it the stored slot holds the
\* new value and the root class reflects it; while App is mounted the slot and
\* the class always agree with the theme; and the startup that follows a reload
\* resolves to the theme that was shown when the page was unloaded, whatever
\* the system preference is then
C16_ToggleSurvivesReload ==
    /\ [][lastEvent'.kind = "toggle"
             => /\ dark' = ~dark
                /\ stored' = ThemeName(dark')
                /\ rootDark' = dark']_vars
    /\ [](phase = "mounted" => (stored = ThemeName(dark) /\ rootDark = dark))
    /\ []((lastEvent.kind = "mount" /\ unloaded.theme # "none")
             => /\ phase = "mounted"
                /\ ThemeName(dark) = unloaded.theme
                /\ stored = unloaded.theme
                /\ rootDark = dark)

\* the page was reloaded right after a toggle to dark, and the startup resolved
\* to dark although the system prefers light
C16_Witness ==
    /\ lastEvent.kind = "mount"
    /\ unloaded = [theme |-> "dark", event |-> "toggle", read |-> "unread"]
    /\ dark
    /\ rootDark
    /\ stored = "dark"
    /\ sysDark = "light"

\* C17: with storage unavailable or the platform query unavailable, startup
\* and every toggle complete without an error, and the theme falls back from
\* the stored preference to the system preference to light
C17_ThemeNeverFails ==
    lastEvent.kind \in {"mount", "toggle"}
        => /\ ~threw
           /\ phase = "mounted"
           /\ rootDark = dark
           /\ (lastEvent.kind = "mount" /\ ~StoredPresent(stored))
                  => (dark = (sysDark = "dark"))

(***************************************************************************)
(* Repeated evaluations of the tracker (specification SpySpec).            *)
(***************************************************************************)
\* the choice that depends on the present positions only: of the qualifying
\* sections with the greatest top edge, the one listed first
PresentChoice ==
    LET Q == {i \in 1..Len(sectionIds) : sectionIds[i] \in QualifyingIds}
        best == CHOOSE i \in Q :
                    \A j \in Q : \/ dom[sectionIds[j]] < dom[sectionIds[i]]
                                 \/ dom[sectionIds[j]] = dom[sectionIds[i]] /\ i <= j
    IN  sectionIds[best]

\* C18: an evaluation that follows an evaluation with the same positions leaves
\* the active section as it is (idempotence); and every evaluation that has a
\* qualifying section sets the active section to the choice determined by the
\* present positions alone, while one that has none keeps it, so that the active
\* section is always the choice of the latest evaluation that had a qualifier
\* (last write wins)
C18_IdempotentLastWriteWins ==
    /\ [][(IsEval /\ lastEvent'.kind \in EvalKinds /\ dom' = dom)
             => active' = active]_vars
    /\ [][lastEvent'.kind \in EvalKinds
             => active' = IF QualifyingIds' # {} THEN PresentChoice' ELSE active]_vars

\* the effect has run handler() again after a render: the active section is
\* still the present choice among several qualifying sections, and it is not
\* the first of the list
C18_Witness ==
    /\ lastEvent.kind = "rerender"
    /\ everSet
    /\ Cardinality(QualifyingIds) >= 2
    /\ active = PresentChoice
    /\ active # sectionIds[1]

(***************************************************************************)
(* The tracker inside App (specification Spec).                            *)
(***************************************************************************)
\* the events after which no render of App and no listener of the hook runs
\* handler(): typing (state of the palette only), a timer, a navigation click
\* and a change of layout without a scroll event
NoEvalKinds == {"type", "timer", "nav", "layout"}

\* C19: a scroll event, which is handled by the tracker alone, issues no scroll
\* and leaves the overlay, the query and its results, the theme, the root class,
\* the stored slot and the pending timers unchanged; and the active section
\* changes only in a step that runs handler(), to the section handler() chooses
C19_TrackerFrame ==
    /\ [][lastEvent'.kind = "scroll"
             => /\ issued' = <<>>
                /\ UNCHANGED <<paletteOpen, q, results, dark, rootDark, stored, timers>>]_vars
    /\ [][active' # active
             => /\ lastEvent'.kind \notin NoEvalKinds
                /\ active' = PresentChoice']_vars

\* a scroll event moved the active section away from the first one while the
\* overlay was open with a query typed, the theme dark and a timer pending
C19_Witness ==
    /\ lastEvent.kind = "scroll"
    /\ active # sectionIds[1]
    /\ active = PresentChoice
    /\ issued = <<>>
    /\ paletteOpen
    /\ q = PORT
    /\ dark
    /\ stored = "dark"
    /\ timers # <<>>

(***************************************************************************)
(* The deferred scroll is never cancelled (specification PaletteSpec).     *)
(***************************************************************************)
\* C20: no event but its own firing removes a pending callback: opening the
\* overlay, Escape, a backdrop click, typing and other selections leave every
\* pending callback pending; a callback that fires is removed and issues the
\* scroll to the card of its project, whatever happened in between; and every
\* pending callback eventually fires. The last scroll issued can therefore be
\* the card scroll of an earlier selection.
C20_TimerNeverCancelled ==
    /\ [][lastEvent'.kind # "timer"
             => /\ Len(timers') >= Len(timers)
                /\ SubSeq(timers', 1, Len(timers)) = timers]_vars
    /\ [][lastEvent'.kind = "timer"
             => /\ timers # <<>>
                /\ timers' = Tail(timers)
                /\ issued' = <<CardScroll(Head(timers))>>]_vars
    /\ (timers # <<>>) ~> (lastEvent.kind = "timer")

\* the callback of an earlier project selection fired while the overlay was
\* open again with another query typed, and centred the card of that project
C20_Witness ==
    /\ lastEvent.kind = "timer"
    /\ lastEvent.open
    /\ paletteOpen
    /\ q = NoMatch
    /\ issued = <<CardScroll("portfolio")>>
    /\ timers = <<>>

(***************************************************************************)
(* The startup of the theme, effect by effect (specification StartupSpec). *)
(***************************************************************************)
\* C21: whenever the theme effects have settled, after startup and after each
\* toggle, the dark state is true iff the root has the class "dark" iff the slot
\* holds "dark", and the slot holds "light" otherwise; a load that finds no
\* stored preference leaves the resolved system preference in the slot without
\* any toggle; and the load that follows a settled page reads the theme of that
\* page from the slot and settles on it, whatever the system preference is
C21_RepresentationsAgree ==
    /\ phase = "mounted"
          => /\ dark <=> rootDark
             /\ rootDark <=> (stored = "dark")
             /\ ~rootDark <=> (stored = "light")
    /\ (lastEvent.kind = "settle" /\ startup.read \in {"none", ""})
          => stored = (IF sysDark = "dark" THEN "dark" ELSE "light")
    /\ (startup.read # "unread" /\ unloaded.theme # "none")
          => startup.read = unloaded.theme
    /\ (lastEvent.kind = "settle" /\ unloaded.theme # "none")
          => (dark <=> (unloaded.theme = "dark"))

\* a first load found no stored preference and settled on the dark system
\* preference; nothing was toggled; the next load read "dark" from the slot and
\* settled on dark although the system now prefers light
C21_Witness ==
    /\ lastEvent.kind = "settle"
    /\ unloaded = [theme |-> "dark", event |-> "settle", read |-> "none"]
    /\ startup.read = "dark"
    /\ sysDark = "light"
    /\ dark
    /\ rootDark
    /\ stored = "dark"

\* C22: when the slot holds "dark" or "light" at load and nothing is toggled,
\* the slot holds that same value once the startup has settled: the read effect
\* reads the slot before the first persist effect overwrites it with "light",
\* and the persist effect of the following render writes the value back
C22_StartupKeepsStoredPreference ==
    /\ [][(lastEvent'.kind = "effects" /\ phase' = "effects")
             => (startup'.read = stored /\ stored' = "light")]_vars
    /\ [][(lastEvent'.kind = "settle" /\ startup.read \in {"dark", "light"})
             => (stored' = startup.read /\ dark' = (startup.read = "dark"))]_vars
    /\ []((lastEvent.kind = "settle" /\ startup.read \in {"dark", "light"})
             => stored = startup.read)

\* the first load found "dark" in the slot while the system prefers light: the
\* startup has settled and the slot holds "dark" again
C22_Witness ==
    /\ lastEvent.kind = "settle"
    /\ phase = "mounted"
    /\ unloaded = NeverLoaded
    /\ startup.read = "dark"
    /\ stored = "dark"
    /\ sysDark = "light"

(***************************************************************************)
(* The shortcut while the overlay is open (specification PaletteSpec).     *)
(***************************************************************************)
IsShortcutEvent(ev) == ev.kind = "keydown" /\ ev.mod /\ ev.key \in {KeyK, KeyUpperK}

\* C23: Ctrl+K or Cmd+K, with the key in either case, pressed while the overlay
\* is Open leaves it Open and leaves the query and its results as they are
C23_ShortcutWhileOpen ==
    [][(IsShortcutEvent(lastEvent') /\ paletteOpen)
          => (paletteOpen' /\ q' = q /\ results' = results)]_vars

\* Cmd+K with an upper-case key arrived while the overlay was open with a query
\* typed: it is still open and still shows that query
C23_Witness ==
    /\ IsShortcutEvent(lastEvent)
    /\ lastEvent.key = KeyUpperK
    /\ lastEvent.open
    /\ paletteOpen
    /\ q = PORT
    /\ Len(results) = 1

(***************************************************************************)
(* Listeners (specification ListenerSpec).                                 *)
(***************************************************************************)
\* C24: at every moment at most one scroll handler of the tracker is
\* registered, exactly one while App is mounted, and none before the effects
\* have run, after a crash of the startup or after unmount; the Escape handler
\* of the palette is registered exactly while App is mounted and the overlay is
\* Open, once, and not after unmount
C24_NoLeakedListeners ==
    /\ scrollHandlers = (IF phase = "mounted" THEN 1 ELSE 0)
    /\ escHandlers = (IF phase = "mounted" /\ paletteOpen THEN 1 ELSE 0)

\* App was unmounted while the overlay was open, after renders caused by a
\* toggle and by a scroll that moved the active section: no listener is left
C24_Witness ==
    /\ phase = "unmounted"
    /\ paletteOpen
    /\ q = PORT
    /\ dark
    /\ active # sectionIds[1]
    /\ scrollHandlers = 0
    /\ escHandlers = 0

(***************************************************************************)
(* The simplified component of src/src/App.jsx: a dark state, one effect   *)
(* on the root class and a theme button. It has no tracker, no palette and *)
(* no timers, and it never touches localStorage or matchMedia; the slot    *)
(* and the system preference are part of the environment all the same.     *)
(***************************************************************************)
\* useState(true)
SimpleInitialDark == TRUE

\* variant: classList.toggle("dark") without the force argument
ClassToggleFlip(has, force) == ~has

\* classList.toggle("dark", force): the class is present afterwards iff force
ClassToggle(has, force) == force

\* onClick: setDark(!dark), with the dark of the render the button belongs to
SimpleNextDark(d) == ~d

\* the effect on [dark] after the first render
SimpleMount ==
    /\ phase = "rendered"
    /\ phase' = "mounted"
    /\ rootDark' = ClassToggle(rootDark, dark)
    /\ lastEvent' = Ev("mount")
    /\ UNCHANGED <<spyVars, paletteVars, dark, stored, sysDark, unloaded, startup,
                   issued, timers, listenerVars>>

\* a click on the theme button, the render and the effect on [dark]
SimpleToggle ==
    /\ phase = "mounted"
    /\ dark' = SimpleNextDark(dark)
    /\ rootDark' = ClassToggle(rootDark, SimpleNextDark(dark))
    /\ lastEvent' = Ev("toggle")
    /\ UNCHANGED <<phase, spyVars, paletteVars, stored, sysDark, unloaded, startup,
                   issued, timers, listenerVars>>

\* the page is loaded again: a new document, whose root may or may not carry the
\* class, and a new first render
SimpleReload ==
    /\ phase = "mounted"
    /\ phase' = "rendered"
    /\ dark' = SimpleInitialDark
    /\ rootDark' \in BOOLEAN
    /\ sysDark' \in SystemValues
    /\ unloaded' = [theme |-> ThemeName(dark), event |-> lastEvent.kind,
                    read |-> startup.read]
    /\ lastEvent' = Ev("reload")
    /\ UNCHANGED <<spyVars, paletteVars, stored, startup, issued, timers, listenerVars>>

SimpleInit ==
    /\ phase = "rendered"
    /\ sectionIds = <<>> /\ offset = DefaultOffset /\ dom = EmptyDocument
    /\ active = "" /\ everSet = FALSE /\ threw = FALSE
    /\ issued = <<>>
    /\ sections = <<>> /\ projects = <<>>
    /\ paletteOpen = FALSE /\ q = <<>> /\ results = <<>>
    /\ dark = SimpleInitialDark
    /\ rootDark \in BOOLEAN
    /\ stored \in StoredValues
    /\ sysDark \in SystemValues
    /\ unloaded = NeverLoaded
    /\ startup = NotStarted
    /\ scrollHandlers = 0 /\ escHandlers = 0
    /\ timers = <<>>
    /\ lastEvent = Ev("render")

SimpleNext ==
    \/ SimpleMount
    \/ SimpleToggle
    \/ SimpleReload

SimpleSpec == SimpleInit /\ [][SimpleNext]_vars

====
